---- MODULE Spec2Model ----
(***************************************************************************)
(* Model of downloader.py (MediaBot on-device downloader):                 *)
(*   _find_downloaded_file, download_media, get_info.                      *)
(* Python strings that the code parses or assembles (mode, the yt-dlp      *)
(* format selector) are sequences of one-character strings, so that        *)
(* endswith, split and concatenation are computed.  Paths are sequences of *)
(* path components: os.path.join appends, os.path.basename takes the last. *)
(* The external library (yt_dlp) and the file system are the environment:  *)
(* the library's outcome is a nondeterministic choice, the file system is  *)
(* the variable fs, time.time() is the variable clock.                     *)
(***************************************************************************)
EXTENDS Integers, Sequences, FiniteSets, TLC

\* ------------------------------------------------------------ bounds
\* largest value of the wall clock
MaxClock == 2

\* most get_info calls made for one URL
MaxInfoCalls == 2

\* ------------------------------------------------------------ strings
Dash == <<"-">>
SufMp3 == <<"-","m","p","3">>
SufVideo == <<"-","v","i","d","e","o">>
StrYoutube == <<"y","o","u","t","u","b","e">>
StrInstagram == <<"i","n","s","t","a","g","r","a","m">>
StrFacebook == <<"f","a","c","e","b","o","o","k">>
StrTiktok == <<"t","i","k","t","o","k">>

\* the six documented modes, and modes outside the documented set
KnownPlatforms == {StrYoutube, StrInstagram, StrFacebook}
DocModes == {pl \o k : pl \in KnownPlatforms, k \in {SufVideo, SufMp3}}
OtherModes == {StrTiktok \o SufVideo, StrTiktok \o SufMp3, StrYoutube}
Modes == DocModes \cup OtherModes

\* str.endswith
EndsWith(s, suf) ==
    /\ Len(s) >= Len(suf)
    /\ SubSeq(s, Len(s) - Len(suf) + 1, Len(s)) = suf

\* str.split(sep)[0] for a one-character separator: the text before the
\* first separator, the whole string when there is none
SplitFirst(s, sep) ==
    LET hits == {i \in 1..Len(s) : <<s[i]>> = sep}
    IN  IF hits = {} THEN s
        ELSE SubSeq(s, 1, (CHOOSE i \in hits : \A j \in hits : i <= j) - 1)

_MOBILE_UA ==
    "Mozilla/5.0 (Linux; Android 14; Pixel 8 Pro) AppleWebKit/537.36 (KHTML, like Gecko) Chrome/124.0.0.0 Mobile Safari/537.36"

_DESKTOP_UA ==
    "Mozilla/5.0 (Windows NT 10.0; Win64; x64) AppleWebKit/537.36 (KHTML, like Gecko) Chrome/124.0.0.0 Safari/537.36"

\* ------------------------------------------------------------ paths
DirA == <<"sdcard", "A">>
DirB == <<"sdcard", "B">>
Dirs == {DirA, DirB}
Names == {"clip.mp4", "clip.webm"}
OutTemplate == "%(title).80s.%(ext)s"

\* os.path.join(dir, name)
PathJoin(d, n) == Append(d, n)

\* os.path.basename(path)
BaseName(p) == p[Len(p)]

\* os.path.dirname(path)
DirName(p) == SubSeq(p, 1, Len(p) - 1)

Paths == {PathJoin(d, n) : d \in Dirs, n \in Names}

\* ------------------------------------------------------------ file system
NoEntry == [kind |-> "none", mtime |-> 0]
FileAt(t) == [kind |-> "file", mtime |-> t]
DirAt(t) == [kind |-> "dir", mtime |-> t]

\* os.path.exists
PathExists(disk, p) == p \in DOMAIN disk /\ disk[p].kind # "none"

\* os.path.isfile
IsFile(disk, p) == p \in DOMAIN disk /\ disk[p].kind = "file"

\* os.path.getmtime
GetMTime(disk, p) == disk[p].mtime

\* the names os.listdir(dir) yields, as a set
Listed(disk, d) == {n \in Names : PathExists(disk, PathJoin(d, n))}

\* all orders in which os.listdir may yield a set of names
Orders(S) ==
    {sq \in [1..Cardinality(S) -> S] : \A i, j \in 1..Cardinality(S) : sq[i] = sq[j] => i = j}

\* ------------------------------------------------------------ file locator
NoPath == <<>>

\* max(candidates, key=os.path.getmtime): the first element of the list
\* whose key no later element exceeds strictly
RECURSIVE MaxByMTimeFrom(_, _, _, _)
MaxByMTimeFrom(disk, cands, i, best) ==
    IF i > Len(cands) THEN best
    ELSE MaxByMTimeFrom(disk, cands, i + 1,
            IF GetMTime(disk, cands[i]) > GetMTime(disk, best) THEN cands[i] ELSE best)

MaxByMTime(disk, cands) == MaxByMTimeFrom(disk, cands, 2, cands[1])

\* the filter of the scan loop: a regular file modified at or after before_ts
IsCandidate(disk, fp, before_ts) ==
    IsFile(disk, fp) /\ GetMTime(disk, fp) >= before_ts

\* the list the scan loop builds, in listing order
CandidateList(disk, output_dir, before_ts, listing) ==
    LET fps == [i \in 1..Len(listing) |-> PathJoin(output_dir, listing[i])]
        Keep(fp) == IsCandidate(disk, fp, before_ts)
    IN  SelectSeq(fps, Keep)

\* _find_downloaded_file(output_dir, before_ts) on the file system disk, when
\* os.listdir yields listing; NoPath stands for None
FindFirstCandidate(disk, output_dir, before_ts, listing) ==
    LET candidates == CandidateList(disk, output_dir, before_ts, listing)
    IN  IF candidates # <<>> THEN candidates[1] ELSE NoPath

_find_downloaded_file(disk, output_dir, before_ts, listing) ==
    LET candidates == CandidateList(disk, output_dir, before_ts, listing)
    IN  IF candidates # <<>> THEN MaxByMTime(disk, candidates) ELSE NoPath

\* ------------------------------------------------------------ configuration
\* mode.endswith("-mp3")
IsAudio(mode) == EndsWith(mode, SufMp3)

\* mode.split("-")[0]
Platform(mode) == SplitFirst(mode, Dash)

AudioFormat ==
    <<"b","e","s","t","a","u","d","i","o","[","e","x","t","=","m","4","a","]","/">>
    \o <<"b","e","s","t","a","u","d","i","o","[","e","x","t","=","m","p","3","]","/">>
    \o <<"b","e","s","t","a","u","d","i","o","[","e","x","t","=","w","e","b","m","]","/">>
    \o <<"b","e","s","t","a","u","d","i","o","/">>
    \o <<"b","e","s","t">>

VideoFormatMerging ==
    <<"b","e","s","t","v","i","d","e","o","+","b","e","s","t","a","u","d","i","o","/">>
    \o <<"b","e","s","t","[","e","x","t","=","m","p","4","]","/">>
    \o <<"b","e","s","t">>

VideoFormat ==
    <<"b","e","s","t","[","e","x","t","=","m","p","4","]","[","h","e","i","g","h","t","<","=","7","2","0","]","/">>
    \o <<"b","e","s","t","[","e","x","t","=","m","p","4","]","/">>
    \o <<"b","e","s","t","[","h","e","i","g","h","t","<","=","7","2","0","]","/">>
    \o <<"b","e","s","t">>

\* outtmpl = os.path.join(output_dir, "%(title).80s.%(ext)s")
OutTmplFixedDir(output_dir) == PathJoin(DirA, OutTemplate)

OutTmpl(output_dir) == PathJoin(output_dir, OutTemplate)

\* ydl_opts before the format and the headers are set
BaseOpts(outtmpl) ==
    [ no_warnings |-> TRUE, noplaylist |-> TRUE, quiet |-> TRUE,
      no_color |-> TRUE, geo_bypass |-> TRUE, socket_timeout |-> 30,
      retries |-> 3, outtmpl |-> outtmpl,
      format_sort |-> <<"res:720", "ext:mp4:m4a:mp3:ogg:webm">> ]

\* ydl_opts["format"]
FormatForMerging(is_audio) == IF is_audio THEN AudioFormat ELSE VideoFormatMerging

FormatFor(is_audio) == IF is_audio THEN AudioFormat ELSE VideoFormat

\* the platform-specific tweaks: the dictionary entries added for a platform
PlatformTweaksSwapped(platform) ==
    IF platform = StrYoutube
      THEN [http_headers |-> [User_Agent |-> _MOBILE_UA]]
    ELSE IF platform = StrInstagram
      THEN [http_headers |-> [User_Agent |-> _DESKTOP_UA]]
    ELSE IF platform = StrFacebook
      THEN [http_headers |-> [User_Agent |-> _MOBILE_UA]]
    ELSE << >>

PlatformTweaks(platform) ==
    IF platform = StrYoutube
      THEN [http_headers |-> [User_Agent |-> _MOBILE_UA]]
    ELSE IF platform = StrInstagram
      THEN [http_headers |-> [User_Agent |-> _MOBILE_UA]]
    ELSE IF platform = StrFacebook
      THEN [http_headers |-> [User_Agent |-> _DESKTOP_UA]]
    ELSE << >>

\* the ydl_opts dictionary download_media hands to yt_dlp.YoutubeDL
BuildOpts(output_dir, mode) ==
    LET is_audio == IsAudio(mode)
        platform == Platform(mode)
        outtmpl  == OutTmpl(output_dir)
    IN  PlatformTweaks(platform)
          @@ [format |-> FormatFor(is_audio)]
          @@ BaseOpts(outtmpl)

\* ------------------------------------------------------------ records
\* json.dumps({"status": "success", ...}) of download_media
Success(title, filename, filepath) ==
    [status |-> "success", title |-> title, filename |-> filename, filepath |-> filepath]

\* json.dumps({"status": "error", "error": ...})
Error(msg) == [status |-> "error", error |-> msg]

NotFoundMsg == "Download finished but file not found"

NoResult == [status |-> "none"]

\* dict.get(key, default) on a metadata object
DictGet(d, key, default) == IF key \in DOMAIN d THEN d[key] ELSE default

\* json.dumps({"status": "success", ...}) of get_info
InfoSuccess(meta) ==
    [ status |-> "success",
      title |-> DictGet(meta, "title", "Unknown"),
      duration |-> DictGet(meta, "duration", 0),
      thumbnail |-> DictGet(meta, "thumbnail", "") ]

\* ------------------------------------------------------------ environment
Procs == {"p1", "p2"}
Urls == {"u1", "u2"}
FailureTexts == {"HTTP 429", "Unsupported URL"}

\* the names prepare_filename may predict: one the library may write, and
\* one it never writes (it corrects the extension)
PredictedNames == {"clip.mp4", "clip.mkv"}

\* the metadata objects extract_info(url, download=True) may return: the
\* name prepare_filename will predict, with or without a title
DownloadInfos ==
    {[name |-> n, title |-> "T"] : n \in PredictedNames}
      \cup {[name |-> n] : n \in PredictedNames}

NoWrite == "(nothing)"

\* the directory listings the calls may find at the start
InitListings ==
    LET none == [n \in Names |-> NoEntry]
    IN  { none,
          [none EXCEPT !["clip.mp4"] = FileAt(0)],
          [none EXCEPT !["clip.mp4"] = FileAt(1)],
          [none EXCEPT !["clip.webm"] = DirAt(1)],
          [none EXCEPT !["clip.mp4"] = DirAt(0), !["clip.webm"] = FileAt(1)],
          [none EXCEPT !["clip.mp4"] = FileAt(0), !["clip.webm"] = FileAt(1)] }

\* ------------------------------------------------------------ state
VARIABLES
    clock,      \* time.time()
    fs,         \* the file system: path -> entry
    stub,       \* the stubbed library's answer to a metadata query, per URL
    pc,         \* per invocation slot: position in download_media
    args,       \* per slot: the arguments of the running call
    before_ts,  \* per slot: local before_ts
    ydl_opts,   \* per slot: local ydl_opts
    info,       \* per slot: local info
    filepath,   \* per slot: local filepath
    result,     \* per slot: the record returned
    libCalls,   \* per slot: library invocations made by the running call
    locCalls,   \* per slot: File Locator consultations made by the running call
    startDir,   \* per slot: the listing of output_dir when the call started
    lib,        \* per slot: what the library did for the running call
    infoLog,    \* per URL: the records get_info has returned so far
    infoCalls   \* per URL: the get_info calls made so far

vars == <<clock, fs, stub, pc, args, before_ts, ydl_opts, info, filepath,
          result, libCalls, locCalls, startDir, lib, infoLog, infoCalls>>

NoArgs == [url |-> "", output_dir |-> <<>>, mode |-> <<>>]
NoLib == [raised |-> FALSE, text |-> "", name |-> NoWrite, mtime |-> 0]

\* the stubbed libraries of the metadata queries
Stubs ==
    LET fail  == [raised |-> TRUE, text |-> "HTTP 429"]
        full  == [raised |-> FALSE, meta |-> [title |-> "T", duration |-> 7, thumbnail |-> "http://t"]]
        empty == [raised |-> FALSE, meta |-> << >>]
    IN  { [u \in Urls |-> IF u = "u1" THEN full ELSE fail],
          [u \in Urls |-> IF u = "u1" THEN empty ELSE full],
          [u \in Urls |-> IF u = "u1" THEN fail ELSE empty] }

EmptyListing == [n \in Names |-> NoEntry]

\* no call is running; the directories hold la and lb, the library stub is st
InitWith(la, lb, st) ==
    /\ clock = 1
    /\ fs = [p \in Paths |-> IF DirName(p) = DirA THEN la[BaseName(p)] ELSE lb[BaseName(p)]]
    /\ stub = st
    /\ pc = [p \in Procs |-> "idle"]
    /\ args = [p \in Procs |-> NoArgs]
    /\ before_ts = [p \in Procs |-> 0]
    /\ ydl_opts = [p \in Procs |-> << >>]
    /\ info = [p \in Procs |-> << >>]
    /\ filepath = [p \in Procs |-> NoPath]
    /\ result = [p \in Procs |-> NoResult]
    /\ libCalls = [p \in Procs |-> 0]
    /\ locCalls = [p \in Procs |-> 0]
    /\ startDir = [p \in Procs |-> << >>]
    /\ lib = [p \in Procs |-> NoLib]
    /\ infoLog = [u \in Urls |-> {}]
    /\ infoCalls = [u \in Urls |-> 0]

Init == \E la \in InitListings, st \in Stubs : InitWith(la, EmptyListing, st)

\* ------------------------------------------------------------ the library
\* the file system after the library has written name w (or nothing) with
\* modification time m into directory d
LibWrite(disk, d, w, m) ==
    IF w = NoWrite THEN disk ELSE [disk EXCEPT ![PathJoin(d, w)] = FileAt(m)]

\* the library can write name w into d: nothing to write, or no directory
\* stands at that path
CanWrite(disk, d, w) ==
    w = NoWrite \/ (PathJoin(d, w) \in DOMAIN disk /\ disk[PathJoin(d, w)].kind # "dir")

\* ydl.prepare_filename(info): the output template filled in from info
PrepareFilename(opts, inf) == PathJoin(DirName(opts.outtmpl), inf.name)

\* ------------------------------------------------------------ download_media
\* lines 58-112: parse the mode, capture before_ts, build ydl_opts and
\* enter the YoutubeDL context
Call(p, url, output_dir, mode) ==
    /\ pc[p] = "idle"
    /\ pc' = [pc EXCEPT ![p] = "extract"]
    /\ args' = [args EXCEPT ![p] = [url |-> url, output_dir |-> output_dir, mode |-> mode]]
    /\ before_ts' = [before_ts EXCEPT ![p] = clock]
    /\ ydl_opts' = [ydl_opts EXCEPT ![p] = BuildOpts(output_dir, mode)]
    /\ startDir' = [startDir EXCEPT ![p] = [n \in Names |-> fs[PathJoin(output_dir, n)]]]
    /\ result' = [result EXCEPT ![p] = NoResult]
    /\ UNCHANGED <<clock, fs, stub, info, filepath, libCalls, locCalls, lib, infoLog, infoCalls>>

\* line 113-117, extract_info returns: the library has written w (or
\* nothing), info is its metadata object, filepath is the predicted path
ExtractOk(p, inf, w, m) ==
    /\ pc[p] = "extract"
    /\ CanWrite(fs, DirName(ydl_opts[p].outtmpl), w)
    /\ fs' = LibWrite(fs, DirName(ydl_opts[p].outtmpl), w, m)
    /\ info' = [info EXCEPT ![p] = inf]
    /\ filepath' = [filepath EXCEPT ![p] = PrepareFilename(ydl_opts[p], inf)]
    /\ libCalls' = [libCalls EXCEPT ![p] = @ + 1]
    /\ lib' = [lib EXCEPT ![p] = [raised |-> FALSE, text |-> "", name |-> w, mtime |-> m]]
    /\ pc' = [pc EXCEPT ![p] = "check"]
    /\ UNCHANGED <<clock, stub, args, before_ts, ydl_opts, result, locCalls, startDir, infoLog, infoCalls>>

\* lines 138-142: the record for a caught exception whose str() is text
CaughtGeneric(text) == Error("Download failed")

Caught(text) == Error(text)

\* line 113 raises, lines 138-142 catch: the result is the failure's text
ExtractRaise(p, text, w, m) ==
    /\ pc[p] = "extract"
    /\ CanWrite(fs, DirName(ydl_opts[p].outtmpl), w)
    /\ fs' = LibWrite(fs, DirName(ydl_opts[p].outtmpl), w, m)
    /\ libCalls' = [libCalls EXCEPT ![p] = @ + 1]
    /\ lib' = [lib EXCEPT ![p] = [raised |-> TRUE, text |-> text, name |-> w, mtime |-> m]]
    /\ result' = [result EXCEPT ![p] = Caught(text)]
    /\ pc' = [pc EXCEPT ![p] = "done"]
    /\ UNCHANGED <<clock, stub, args, before_ts, ydl_opts, info, filepath, locCalls, startDir, infoLog, infoCalls>>

\* lines 130-136: the success record for the local filepath
SuccessRecordNoBase(inf, fp) == Success(DictGet(inf, "title", "media"), fp[1], fp)

SuccessRecord(inf, fp) == Success(DictGet(inf, "title", "media"), BaseName(fp), fp)

\* line 119: does the predicted path exist
PredictedMissingNever(disk, fp) == FALSE

PredictedMissing(disk, fp) == ~PathExists(disk, fp)

\* line 119 with the predicted path present, lines 130-136
CheckPredictedFound(p) ==
    /\ pc[p] = "check"
    /\ ~PredictedMissing(fs, filepath[p])
    /\ result' = [result EXCEPT ![p] = SuccessRecord(info[p], filepath[p])]
    /\ pc' = [pc EXCEPT ![p] = "done"]
    /\ UNCHANGED <<clock, fs, stub, args, before_ts, ydl_opts, info, filepath,
                   libCalls, locCalls, startDir, lib, infoLog, infoCalls>>

\* line 119 with the predicted path absent: go on to the scan
CheckPredictedMissing(p) ==
    /\ pc[p] = "check"
    /\ PredictedMissing(fs, filepath[p])
    /\ pc' = [pc EXCEPT ![p] = "scan"]
    /\ UNCHANGED <<clock, fs, stub, args, before_ts, ydl_opts, info, filepath,
                   result, libCalls, locCalls, startDir, lib, infoLog, infoCalls>>

\* lines 121-136: the record returned after the scan found `found`
AfterScanAlwaysSuccess(inf, found, predicted) ==
    SuccessRecord(inf, IF found # NoPath THEN found ELSE predicted)

AfterScan(inf, found, predicted) ==
    IF found # NoPath THEN SuccessRecord(inf, found) ELSE Error(NotFoundMsg)

\* lines 121-136: the scan of output_dir, os.listdir yielding listing.  The
\* listing and the isfile and getmtime reads of the scan are one step: no
\* other call writes into this directory unless it was given the same one.
Scan(p, listing) ==
    /\ pc[p] = "scan"
    /\ LET found == _find_downloaded_file(fs, args[p].output_dir, before_ts[p], listing)
       IN  /\ filepath' = [filepath EXCEPT ![p] = IF found # NoPath THEN found ELSE @]
           /\ result' = [result EXCEPT ![p] = AfterScan(info[p], found, filepath[p])]
    /\ locCalls' = [locCalls EXCEPT ![p] = @ + 1]
    /\ pc' = [pc EXCEPT ![p] = "done"]
    /\ UNCHANGED <<clock, fs, stub, args, before_ts, ydl_opts, info,
                   libCalls, startDir, lib, infoLog, infoCalls>>

\* the caller has the record; the slot is free for the next call
Return(p) ==
    /\ pc[p] = "done"
    /\ pc' = [pc EXCEPT ![p] = "idle"]
    /\ args' = [args EXCEPT ![p] = NoArgs]
    /\ before_ts' = [before_ts EXCEPT ![p] = 0]
    /\ ydl_opts' = [ydl_opts EXCEPT ![p] = << >>]
    /\ info' = [info EXCEPT ![p] = << >>]
    /\ filepath' = [filepath EXCEPT ![p] = NoPath]
    /\ result' = [result EXCEPT ![p] = NoResult]
    /\ libCalls' = [libCalls EXCEPT ![p] = 0]
    /\ locCalls' = [locCalls EXCEPT ![p] = 0]
    /\ startDir' = [startDir EXCEPT ![p] = << >>]
    /\ lib' = [lib EXCEPT ![p] = NoLib]
    /\ UNCHANGED <<clock, fs, stub, infoLog, infoCalls>>

\* ------------------------------------------------------------ get_info
\* lines 153-172: the record for the library's answer
InfoRecordCounting(outcome, seen) ==
    IF outcome.raised THEN Error(outcome.text)
    ELSE [InfoSuccess(outcome.meta) EXCEPT !.duration = @ + Cardinality(seen)]

InfoRecord(outcome, seen) ==
    IF outcome.raised THEN Error(outcome.text) ELSE InfoSuccess(outcome.meta)

\* get_info(url), a whole call
GetInfo(p, url) ==
    /\ pc[p] = "idle"
    /\ infoCalls[url] < MaxInfoCalls
    /\ infoCalls' = [infoCalls EXCEPT ![url] = @ + 1]
    /\ infoLog' = [infoLog EXCEPT ![url] = @ \cup {InfoRecord(stub[url], @)}]
    /\ UNCHANGED <<clock, fs, stub, pc, args, before_ts, ydl_opts, info, filepath,
                   result, libCalls, locCalls, startDir, lib>>

\* ------------------------------------------------------------ time
Tick ==
    /\ clock < MaxClock
    /\ clock' = clock + 1
    /\ UNCHANGED <<fs, stub, pc, args, before_ts, ydl_opts, info, filepath,
                   result, libCalls, locCalls, startDir, lib, infoLog, infoCalls>>

\* ------------------------------------------------------------ specifications
WriteChoices == Names \cup {NoWrite}
ModeYoutubeMp3 == StrYoutube \o SufMp3

\* one caller issuing download_media and get_info calls one after the other,
\* the library free to answer and to write anything
Next ==
    \/ \E mode \in {ModeYoutubeMp3} : Call("p1", "u1", DirA, mode)
    \/ \E inf \in DownloadInfos, w \in WriteChoices, m \in 0..clock : ExtractOk("p1", inf, w, m)
    \/ \E text \in FailureTexts, w \in WriteChoices, m \in 0..clock : ExtractRaise("p1", text, w, m)
    \/ CheckPredictedFound("p1")
    \/ CheckPredictedMissing("p1")
    \/ \E listing \in Orders(Listed(fs, args["p1"].output_dir)) : Scan("p1", listing)
    \/ Return("p1")
    \/ \E url \in Urls : GetInfo("p1", url)
    \/ Tick

Spec == Init /\ [][Next]_vars

\* one caller issuing download_media calls with every mode and directory,
\* the library either failing or writing the predicted file
InfoMp4 == [name |-> "clip.mp4", title |-> "T"]

InitConfig == \E st \in Stubs : InitWith(EmptyListing, EmptyListing, st)

NextConfig ==
    \/ \E url \in Urls, d \in Dirs, mode \in Modes : Call("p1", url, d, mode)
    \/ \E w \in {"clip.mp4", NoWrite} : ExtractOk("p1", InfoMp4, w, clock)
    \/ \E text \in FailureTexts : ExtractRaise("p1", text, NoWrite, clock)
    \/ CheckPredictedFound("p1")
    \/ CheckPredictedMissing("p1")
    \/ \E listing \in Orders(Listed(fs, args["p1"].output_dir)) : Scan("p1", listing)
    \/ Return("p1")

SpecConfig == InitConfig /\ [][NextConfig]_vars

\* two callers, each issuing one download_media call, their steps interleaved
TitledInfos == {[name |-> n, title |-> "T"] : n \in PredictedNames}

ConcListings ==
    { EmptyListing,
      [EmptyListing EXCEPT !["clip.mp4"] = FileAt(1)],
      [EmptyListing EXCEPT !["clip.webm"] = DirAt(1)] }

InitConc ==
    \E la \in ConcListings, lb \in ConcListings, st \in {CHOOSE st \in Stubs : TRUE} :
        InitWith(la, lb, st)

NextConc ==
    \/ \E p \in Procs, d \in Dirs : Call(p, "u1", d, ModeYoutubeMp3)
    \/ \E p \in Procs, inf \in TitledInfos, w \in WriteChoices, m \in {0, clock} :
          ExtractOk(p, inf, w, m)
    \/ \E p \in Procs, w \in WriteChoices : ExtractRaise(p, "HTTP 429", w, clock)
    \/ \E p \in Procs : CheckPredictedFound(p)
    \/ \E p \in Procs : CheckPredictedMissing(p)
    \/ \E p \in Procs : \E listing \in Orders(Listed(fs, args[p].output_dir)) : Scan(p, listing)
    \/ Tick

SpecConc == InitConc /\ [][NextConc]_vars

\* ------------------------------------------------------------ properties
\* the regular files of directory d modified at or after ts
Qualifying(disk, d, ts) ==
    {fp \in Paths : DirName(fp) = d /\ disk[fp].kind = "file" /\ disk[fp].mtime >= ts}

\* the newest of them
Newest(disk, d, ts) ==
    {fp \in Qualifying(disk, d, ts) :
        \A q \in Qualifying(disk, d, ts) : disk[q].mtime <= disk[fp].mtime}

\* the path the library predicted for the running call of slot p
Predicted(p) == Append(args[p].output_dir, info[p].name)

\* the library returned metadata to the running call of slot p, which is over
ReturnedAfterLibraryOk(p) == pc[p] = "done" /\ libCalls[p] = 1 /\ ~lib[p].raised

\* C1: a call whose mode has a platform other than youtube, instagram,
\* facebook is rejected before the configuration is built: the library is
\* never invoked and the record returned is an error.
C1_UnknownPlatformRejected ==
    \A p \in Procs :
        (pc[p] # "idle" /\ SplitFirst(args[p].mode, Dash) \notin KnownPlatforms)
            => /\ libCalls[p] = 0
               /\ pc[p] = "done" => result[p].status = "error"

\* C2: for every directory content, cutoff and listing order, the locator
\* returns a regular file of the directory modified at or after the cutoff
\* and newest among those, and returns None exactly when there is none.
C2_LocatorReturnsNewest ==
    \A d \in Dirs, ts \in 0..MaxClock :
        \A listing \in Orders(Listed(fs, d)) :
            LET r == _find_downloaded_file(fs, d, ts, listing)
            IN  /\ (r = NoPath) <=> (Qualifying(fs, d, ts) = {})
                /\ r # NoPath => r \in Newest(fs, d, ts)

\* a call's scan met two regular files at or after the cutoff, the older
\* listed first, and the call returned the newer
C2_Witness ==
    /\ pc["p1"] = "done" /\ locCalls["p1"] = 1
    /\ Cardinality(Qualifying(fs, DirA, before_ts["p1"])) = 2
    /\ Cardinality(Newest(fs, DirA, before_ts["p1"])) = 1
    /\ result["p1"].status = "success"
    /\ result["p1"].filepath \in Newest(fs, DirA, before_ts["p1"])

\* C3: when the library raises, the call returns the error record carrying
\* the failure's text, the library was invoked once, the locator not at all.
C3_LibraryFailureIsReturned ==
    \A p \in Procs :
        /\ libCalls[p] <= 1
        /\ (pc[p] # "idle" /\ lib[p].raised)
              => /\ pc[p] = "done"
                 /\ result[p] = [status |-> "error", error |-> lib[p].text]
                 /\ libCalls[p] = 1
                 /\ locCalls[p] = 0

C3_Witness ==
    /\ pc["p1"] = "done" /\ lib["p1"].raised /\ lib["p1"].text = "HTTP 429"
    /\ result["p1"] = [status |-> "error", error |-> "HTTP 429"]

\* C4: when the library succeeds, nothing stands at the predicted path and
\* no regular file of output_dir is modified at or after before_ts, the call
\* returns the error record "Download finished but file not found".
C4_NothingFoundIsError ==
    \A p \in Procs :
        ( /\ ReturnedAfterLibraryOk(p)
          /\ ~PathExists(fs, Predicted(p))
          /\ Qualifying(fs, args[p].output_dir, before_ts[p]) = {} )
        => result[p] = [status |-> "error", error |-> "Download finished but file not found"]

\* the library wrote a file, yet with a modification time before before_ts
C4_Witness ==
    /\ ReturnedAfterLibraryOk("p1")
    /\ ~PathExists(fs, Predicted("p1"))
    /\ Qualifying(fs, DirA, before_ts["p1"]) = {}
    /\ lib["p1"].name # NoWrite
    /\ result["p1"].status = "error"

\* C5: when the library succeeds, the success record's filepath is the
\* predicted path when something exists there, the locator then not being
\* consulted, and the locator's result otherwise; with the predicted path
\* absent and exactly one qualifying file the call returns success naming it.
C5_FilepathResolution ==
    \A p \in Procs :
        ReturnedAfterLibraryOk(p) =>
            IF PathExists(fs, Predicted(p))
            THEN /\ result[p].status = "success"
                 /\ result[p].filepath = Predicted(p)
                 /\ locCalls[p] = 0
            ELSE /\ locCalls[p] = 1
                 /\ result[p].status = "success"
                      => result[p].filepath \in Newest(fs, args[p].output_dir, before_ts[p])
                 /\ \A q \in Paths :
                      Qualifying(fs, args[p].output_dir, before_ts[p]) = {q}
                        => result[p].status = "success" /\ result[p].filepath = q

C5_Witness ==
    /\ ReturnedAfterLibraryOk("p1")
    /\ ~PathExists(fs, Predicted("p1"))
    /\ Cardinality(Qualifying(fs, DirA, before_ts["p1"])) = 1
    /\ result["p1"].status = "success"
    /\ result["p1"].filepath \in Qualifying(fs, DirA, before_ts["p1"])
    /\ locCalls["p1"] = 1

\* the alternatives of a format selector: the pieces between the "/"
RECURSIVE SplitOn(_, _)
SplitOn(s, sep) ==
    LET hits == {i \in 1..Len(s) : s[i] = sep}
    IN  IF hits = {} THEN <<s>>
        ELSE LET k == CHOOSE i \in hits : \A j \in hits : i <= j
             IN  <<SubSeq(s, 1, k - 1)>> \o SplitOn(SubSeq(s, k + 1, Len(s)), sep)

\* slot p has built its configuration
Configured(p) == DOMAIN ydl_opts[p] # {}

\* C6: for every mode, no alternative of the format preference list handed
\* to the library merges streams (holds a "+"), and the last one is "best".
C6_NoMergeSpecifier ==
    \A p \in Procs :
        Configured(p) =>
            LET alts == SplitOn(ydl_opts[p].format, "/")
            IN  /\ \A i \in 1..Len(alts) :
                     /\ alts[i] # << >>
                     /\ \A j \in 1..Len(alts[i]) : alts[i][j] # "+"
                /\ alts[Len(alts)] = <<"b","e","s","t">>

\* a video mode and its four alternatives
C6_Witness ==
    /\ Configured("p1")
    /\ args["p1"].mode = StrFacebook \o SufVideo
    /\ Len(SplitOn(ydl_opts["p1"].format, "/")) = 4
    /\ libCalls["p1"] = 1

\* the http_headers entry of a configuration, as a set: empty when absent
HeaderPart(o) == IF "http_headers" \in DOMAIN o THEN {o.http_headers} ELSE {}

\* C7: the User-Agent override is decided by the platform alone: mobile for
\* youtube and instagram, desktop for facebook, no http_headers entry for
\* any other platform; the kind does not change it.
C7_HeaderByPlatform ==
    /\ \A p \in Procs :
        Configured(p) =>
            LET pl == SplitFirst(args[p].mode, Dash)
                o  == ydl_opts[p]
            IN  /\ pl \in {StrYoutube, StrInstagram}
                     => "http_headers" \in DOMAIN o /\ o.http_headers = [User_Agent |-> _MOBILE_UA]
                /\ pl = StrFacebook
                     => "http_headers" \in DOMAIN o /\ o.http_headers = [User_Agent |-> _DESKTOP_UA]
                /\ pl \notin KnownPlatforms => "http_headers" \notin DOMAIN o
    /\ \A pl \in KnownPlatforms \cup {StrTiktok}, d \in Dirs :
          HeaderPart(BuildOpts(d, pl \o SufVideo)) = HeaderPart(BuildOpts(d, pl \o SufMp3))

C7_Witness ==
    /\ Configured("p1")
    /\ args["p1"].mode = StrFacebook \o SufMp3
    /\ ydl_opts["p1"].http_headers = [User_Agent |-> _DESKTOP_UA]

AloneDisk(p) ==
    LibWrite([fp \in {Append(args[p].output_dir, n) : n \in Names} |-> startDir[p][BaseName(fp)]],
             args[p].output_dir, lib[p].name, lib[p].mtime)

\* the records a call of slot p may return when run alone with the same
\* before_ts and the same library behaviour
AloneResults(p) ==
    IF lib[p].raised THEN {[status |-> "error", error |-> lib[p].text]}
    ELSE IF PathExists(AloneDisk(p), Predicted(p))
      THEN {Success(info[p].title, info[p].name, Predicted(p))}
    ELSE IF Qualifying(AloneDisk(p), args[p].output_dir, before_ts[p]) = {}
      THEN {[status |-> "error", error |-> "Download finished but file not found"]}
    ELSE {Success(info[p].title, fp[Len(fp)], fp) :
              fp \in Newest(AloneDisk(p), args[p].output_dir, before_ts[p])}

\* C9: two calls running concurrently with different output directories:
\* each returns what it would return alone, and a success record of one
\* never names a file of the other's directory.
C9_DifferentDirsIndependent ==
    \A p, q \in Procs :
        (p # q /\ pc[p] = "done" /\ pc[q] # "idle"
           /\ args[p].output_dir # args[q].output_dir)
        => /\ result[p] \in AloneResults(p)
           /\ result[p].status = "success"
                => SubSeq(result[p].filepath, 1, Len(result[p].filepath) - 1)
                      # args[q].output_dir

\* both calls are over, in different directories, both with a success
\* record, one found by the scan and one at the predicted path
C9_Witness ==
    /\ pc["p1"] = "done" /\ pc["p2"] = "done"
    /\ args["p1"].output_dir = DirA /\ args["p2"].output_dir = DirB
    /\ result["p1"].status = "success" /\ result["p2"].status = "success"
    /\ locCalls["p1"] = 1 /\ locCalls["p2"] = 0
    /\ before_ts["p1"] < before_ts["p2"]

\* C10: a success record's filename is the last component of its filepath,
\* and its filepath is the predicted path, found to exist, or a regular
\* file directly inside output_dir modified at or after before_ts.
C10_SuccessNamesObservedFile ==
    \A p \in Procs :
        result[p].status = "success" =>
            LET fp == result[p].filepath
            IN  /\ result[p].filename = fp[Len(fp)]
                /\ \/ fp = Predicted(p) /\ PathExists(fs, fp)
                   \/ fp \in Qualifying(fs, args[p].output_dir, before_ts[p])

\* a success record naming a file the scan found, not the predicted path
C10_Witness ==
    /\ result["p1"].status = "success"
    /\ result["p1"].filepath # Predicted("p1")
    /\ result["p1"].filename = "clip.webm"
    /\ locCalls["p1"] = 1

====
